---- MODULE Spec2Model ----
(***************************************************************************)
(* Recurring-expense materialization of ExpenseOwl's PostgreSQL store:     *)
(* generateExpensesFromRecurring and the three transactional lifecycle     *)
(* operations AddRecurringExpense, UpdateRecurringExpense and              *)
(* RemoveRecurringExpense (package storage), with the operations around    *)
(* them: the direct entry operations, the configuration updates and the    *)
(* cached defaults, the query of one rule, the HTTP handlers' answers,     *)
(* the subcategory mapping engine, the monthly trend and the summary of    *)
(* the current period (package api).                                       *)
(*                                                                         *)
(* An instant (time.Time) is an integer number of ticks since              *)
(* 2026-01-01T00:00; a day has TicksPerDay ticks.  Identifiers (uuid       *)
(* strings) are naturals, 0 being the empty string.                        *)
(***************************************************************************)
EXTENDS Integers, Sequences, FiniteSets, TLC

VARIABLES
    now,                \* the wall clock read by time.Now()
    defaults,           \* databaseStore.defaults
    config,             \* committed rows of table config
    upd,                \* per request: the configuration update in progress
    recurring_expenses, \* committed rows of table recurring_expenses
    expenses,           \* committed rows of table expenses
    pc,                 \* per request: position inside the lifecycle call
    op,                 \* per request: the arguments of the call
    tx,                 \* per request: the uncommitted work of its transaction
    res,                \* per request: what the last call returned
    call,               \* call of a function on its own: the arguments
    out                 \* call of a function on its own: the result

vars == <<now, defaults, config, upd, recurring_expenses, expenses, pc, op, tx, res, call, out>>

\* ------------------------------------------------------------------ bounds
TicksPerDay == 2
MaxBudget == 5
MaxSkips == 6

\* ---------------------------------------------------------------- calendar
IsLeap(y) == (y % 4 = 0 /\ y % 100 # 0) \/ y % 400 = 0

Years == 2026..2045

DaysBeforeYear(y) == 365 * (y - 2026) + Cardinality({k \in 2026..(y - 1) : IsLeap(k)})

DaysIn(y, m) ==
    IF m = 2 THEN (IF IsLeap(y) THEN 29 ELSE 28)
    ELSE IF m \in {4, 6, 9, 11} THEN 30 ELSE 31

RECURSIVE DaysBeforeMonth(_, _)
DaysBeforeMonth(y, m) == IF m <= 1 THEN 0 ELSE DaysBeforeMonth(y, m - 1) + DaysIn(y, m - 1)

\* time.Date(y, m, d, ...): a month past December carries into the year and a
\* day past the end of the month carries into the following months.
DateToDay(y, m, d) ==
    LET yy == y + ((m - 1) \div 12)
        mm == ((m - 1) % 12) + 1
    IN  DaysBeforeYear(yy) + DaysBeforeMonth(yy, mm) + (d - 1)

YearOf(n) == CHOOSE y \in Years : DaysBeforeYear(y) <= n /\ n < DaysBeforeYear(y + 1)

MonthOf(n) ==
    LET y == YearOf(n)
        r == n - DaysBeforeYear(y)
    IN  CHOOSE m \in 1..12 : DaysBeforeMonth(y, m) <= r /\ r < DaysBeforeMonth(y, m) + DaysIn(y, m)

DayOf(n) == n - DaysBeforeYear(YearOf(n)) - DaysBeforeMonth(YearOf(n), MonthOf(n)) + 1

\* time.Time.AddDate(years, months, days): the clock time of day is kept.
AddDate(t, years, months, days) ==
    LET n == t \div TicksPerDay
    IN  DateToDay(YearOf(n) + years, MonthOf(n) + months, DayOf(n) + days) * TicksPerDay
            + (t % TicksPerDay)

Intervals == {"daily", "weekly", "monthly", "yearly"}

\* the switch on recExp.Interval with a month or a year added the way that
\* keeps the date inside the target month: a day past its end becomes its last
StepClamped(t, interval) ==
    LET n == t \div TicksPerDay
        months == IF interval = "monthly" THEN 1 ELSE 12
        y == YearOf(n) + ((MonthOf(n) - 1 + months) \div 12)
        m == ((MonthOf(n) - 1 + months) % 12) + 1
        d == IF DayOf(n) > DaysIn(y, m) THEN DaysIn(y, m) ELSE DayOf(n)
    IN  IF interval \in {"monthly", "yearly"}
        THEN DateToDay(y, m, d) * TicksPerDay + (t % TicksPerDay)
        ELSE AddDate(t, 0, 0, IF interval = "daily" THEN 1 ELSE 7)

\* the switch on recExp.Interval; only called with a valid interval
Step(t, interval) ==
    CASE interval = "daily"   -> AddDate(t, 0, 0, 1)
      [] interval = "weekly"  -> AddDate(t, 0, 0, 7)
      [] interval = "monthly" -> AddDate(t, 0, 1, 0)
      [] interval = "yearly"  -> AddDate(t, 1, 0, 0)

\* --------------------------------------------------------------- expansion
\* the fast-forward loop in which only a step that lands before today takes
\* one occurrence off the budget
RECURSIVE FastForwardLandingOnly(_, _, _, _)
FastForwardLandingOnly(recExp, currentDate, occurrencesToGenerate, today) ==
    IF currentDate < today /\ (recExp.occurrences = 0 \/ occurrencesToGenerate > 0)
    THEN IF recExp.interval \notin Intervals
         THEN [halted |-> TRUE, currentDate |-> currentDate,
               occurrencesToGenerate |-> occurrencesToGenerate]
         ELSE FastForwardLandingOnly(recExp, Step(currentDate, recExp.interval),
                          IF recExp.occurrences > 0 /\ Step(currentDate, recExp.interval) < today
                          THEN occurrencesToGenerate - 1
                          ELSE occurrencesToGenerate,
                          today)
    ELSE [halted |-> FALSE, currentDate |-> currentDate,
          occurrencesToGenerate |-> occurrencesToGenerate]

\* the fast-forward loop: returns the cursor, the occurrences left to generate
\* and whether the default branch returned from the function
RECURSIVE FastForward(_, _, _, _)
FastForward(recExp, currentDate, occurrencesToGenerate, today) ==
    IF currentDate < today /\ (recExp.occurrences = 0 \/ occurrencesToGenerate > 0)
    THEN IF recExp.interval \notin Intervals
         THEN [halted |-> TRUE, currentDate |-> currentDate,
               occurrencesToGenerate |-> occurrencesToGenerate]
         ELSE FastForward(recExp, Step(currentDate, recExp.interval),
                          IF recExp.occurrences > 0 THEN occurrencesToGenerate - 1
                                                    ELSE occurrencesToGenerate,
                          today)
    ELSE [halted |-> FALSE, currentDate |-> currentDate,
          occurrencesToGenerate |-> occurrencesToGenerate]

\* the entry left without its back-reference
ExpenseUnreferenced(id, recExp, date) ==
    [id |-> id, recurring_id |-> 0, name |-> recExp.name,
     category |-> recExp.category, subcategory |-> "", amount |-> recExp.amount,
     currency |-> recExp.currency, date |-> date, tags |-> recExp.tags]

Expense(id, recExp, date) ==
    [id |-> id, recurring_id |-> recExp.id, name |-> recExp.name,
     category |-> recExp.category, subcategory |-> "", amount |-> recExp.amount,
     currency |-> recExp.currency, date |-> date, tags |-> recExp.tags]

\* uuid.New(): the k-th identifier this call draws from the unused ones; none
\* is left (0) when the model's supply of identifiers is exhausted
uuidNew(ids, k) == IF k <= Len(ids) THEN ids[k] ELSE 0

\* the loop "for range limit" with the interval looked at before the entry is
\* appended
RECURSIVE GenerateValidated(_, _, _, _, _, _)
GenerateValidated(recExp, currentDate, k, limit, ids, acc) ==
    IF k >= limit \/ recExp.interval \notin Intervals THEN acc
    ELSE GenerateValidated(recExp, Step(currentDate, recExp.interval), k + 1, limit, ids,
                           Append(acc, Expense(uuidNew(ids, k + 1), recExp, currentDate)))

\* the loop "for range limit": k entries are already in acc
RECURSIVE Generate(_, _, _, _, _, _)
Generate(recExp, currentDate, k, limit, ids, acc) ==
    IF k >= limit THEN acc
    ELSE LET more == Append(acc, Expense(uuidNew(ids, k + 1), recExp, currentDate))
         IN  IF recExp.interval \notin Intervals THEN more
             ELSE Generate(recExp, Step(currentDate, recExp.interval), k + 1, limit, ids, more)

\* the disabled heuristic for "indefinite" rules, switched on
generateIndefinite(recExp, fromToday, today, ids) ==
    LET ff == IF fromToday
              THEN FastForward(recExp, recExp.start_date, recExp.occurrences, today)
              ELSE [halted |-> FALSE, currentDate |-> recExp.start_date,
                    occurrencesToGenerate |-> recExp.occurrences]
    IN  IF ff.halted THEN <<>>
        ELSE Generate(recExp, ff.currentDate, 0,
                      IF recExp.occurrences = 0 THEN 2 ELSE ff.occurrencesToGenerate, ids, <<>>)

\* the fast-forward applied whatever the flag
generateAlwaysFromToday(recExp, fromToday, today, ids) ==
    LET ff == FastForward(recExp, recExp.start_date, recExp.occurrences, today)
    IN  IF ff.halted THEN <<>>
        ELSE Generate(recExp, ff.currentDate, 0, ff.occurrencesToGenerate, ids, <<>>)

\* the expansion that starts at the start date whatever the flag
generateFromStartDate(recExp, fromToday, today, ids) ==
    Generate(recExp, recExp.start_date, 0, recExp.occurrences, ids, <<>>)

\* ids are the identifiers uuid.New() returns, in the order it returns them
generateExpensesFromRecurring(recExp, fromToday, today, ids) ==
    LET ff == IF fromToday
              THEN FastForward(recExp, recExp.start_date, recExp.occurrences, today)
              ELSE [halted |-> FALSE, currentDate |-> recExp.start_date,
                    occurrencesToGenerate |-> recExp.occurrences]
    IN  IF ff.halted THEN <<>>
        ELSE Generate(recExp, ff.currentDate, 0, ff.occurrencesToGenerate, ids, <<>>)

Dates(s) == [i \in 1..Len(s) |-> s[i].date]

\* ------------------------------------------------------------------ inputs
Payloads ==
    { [name |-> "rent", amount |-> 950, category |-> "Housing", tags |-> <<>>, currency |-> ""],
      [name |-> "gym", amount |-> 20, category |-> "Health", tags |-> <<"fit">>, currency |-> "EUR"] }

RecurringExpense(id, p, start, interval, occurrences) ==
    [id |-> id, name |-> p.name, amount |-> p.amount, currency |-> p.currency,
     category |-> p.category, start_date |-> start, interval |-> interval,
     occurrences |-> occurrences, tags |-> p.tags]

NoRule == RecurringExpense(0, CHOOSE p \in Payloads : p.name = "rent", 0, "", 0)

\* ------------------------------------------------ stand-alone expansion
\* 2026-01-01, 2026-01-31 and the leap day 2028-02-29, at both times of day
ExpandStarts ==
    {d * TicksPerDay + h : d \in {0, 30, DateToDay(2028, 2, 29)}, h \in {0, 1}}

ExpandRules ==
    {RecurringExpense(1, p, s, i, n) :
        p \in {q \in Payloads : q.name = "gym"}, s \in ExpandStarts,
        i \in Intervals \cup {"hourly"}, n \in 0..MaxBudget}

NoCall == [recExp |-> NoRule, fromToday |-> FALSE, today |-> 0]
NoOut == [done |-> FALSE, expenses |-> <<>>]

\* ------------------------------------------------------------ requests
Procs == {1, 2}

\* the arguments of a call: the rule as the caller sent it (sent) and as the
\* call has prepared it (recExp)
NoOp == [kind |-> "none", id |-> 0, recExp |-> NoRule, all |-> FALSE, sent |-> NoRule]

\* what a transaction has written and not yet committed: the rule statement
\* ("none", "put" or "del"), the expense rows deleted and inserted, the two
\* readings of time.Now() and whether a statement had to wait for a row lock
NoTx == [rule |-> "none", del |-> {}, ins |-> {}, cut |-> 0, today |-> 0, waited |-> FALSE]

\* the categories that have subcategory lists
SubCategoryKeys == {"Food", "Fun"}

\* Config: the category list, the currency and the subcategory list of each
\* category (empty for a category the map has no key for)
Config(categories, currency, subcategories) ==
    [categories |-> categories, currency |-> currency, subcategories |-> subcategories]

NoConfig == Config(<<>>, "", [k \in SubCategoryKeys |-> <<>>])

\* a configuration update: the operation and its arguments, its position
\* ("idle", "read" after GetConfig, "done"), the configuration it has read and
\* the error it returned
NoUpd == [kind |-> "none", category |-> "", a |-> "", b |-> "", list |-> <<>>,
          pc |-> "idle", c |-> NoConfig, err |-> ""]

StoreIdle ==
    /\ now = 0
    /\ defaults = [currency |-> ""]
    /\ config = {}
    /\ upd = [p \in Procs |-> NoUpd]
    /\ recurring_expenses = {}
    /\ expenses = {}
    /\ pc = [p \in Procs |-> "idle"]
    /\ op = [p \in Procs |-> NoOp]
    /\ tx = [p \in Procs |-> NoTx]
    /\ res = [p \in Procs |-> ""]

\* k-th occurrence date of a rule with a valid interval, k = 0, 1, ...
RECURSIVE Occurrence(_, _)
Occurrence(recExp, k) ==
    IF k = 0 THEN recExp.start_date
    ELSE Step(Occurrence(recExp, k - 1), recExp.interval)

\* the current times tried for a rule: the instants just before, at and just
\* after each of its first occurrences (for an unknown interval kind, of the
\* days from its start date)
Todays(recExp) ==
    {(IF recExp.interval \in Intervals THEN Occurrence(recExp, j)
      ELSE recExp.start_date + j * TicksPerDay) + d : j \in 0..MaxSkips, d \in {-1, 0, 1}}

InitExpand ==
    /\ StoreIdle
    /\ \E r \in ExpandRules, f \in BOOLEAN :
         \E t \in Todays(r) : call = [recExp |-> r, fromToday |-> f, today |-> t]
    /\ out = NoOut

ExpandCall ==
    /\ ~out.done
    /\ out' = [done |-> TRUE,
               expenses |-> generateExpensesFromRecurring(call.recExp, call.fromToday, call.today,
                                                           [i \in 1..MaxBudget |-> i])]
    /\ UNCHANGED <<now, defaults, config, upd, recurring_expenses, expenses, pc, op, tx, res, call>>

NextExpand == ExpandCall

SpecExpand == InitExpand /\ [][NextExpand]_vars

\* C8: with a valid interval and budget N > 0, expansion from the start date
\* yields exactly N entries dated startDate, step(startDate), ... in ascending
\* order whatever the current time is; daily from 2026-01-01 with budget 5
\* gives 01-01 .. 01-05.
C8_ExpandFromStart ==
    (out.done /\ ~call.fromToday /\ call.recExp.interval \in Intervals
        /\ call.recExp.occurrences > 0)
    => /\ Len(out.expenses) = call.recExp.occurrences
       /\ \A i \in 1..Len(out.expenses) :
            out.expenses[i].date = Occurrence(call.recExp, i - 1)
       /\ \A i \in 1..(Len(out.expenses) - 1) :
            out.expenses[i].date < out.expenses[i + 1].date
       /\ (call.recExp.interval = "daily" /\ call.recExp.start_date = 0
            /\ call.recExp.occurrences = 5)
          => Dates(out.expenses) = <<0, TicksPerDay, 2 * TicksPerDay, 3 * TicksPerDay, 4 * TicksPerDay>>

C8_Witness ==
    /\ out.done /\ ~call.fromToday /\ call.today > 3 * TicksPerDay
    /\ call.recExp.interval = "daily" /\ call.recExp.start_date = 0
    /\ call.recExp.occurrences = 5
    /\ Len(out.expenses) = 5

\* =================================================================== store
MaxNow == 5
MaxOccurrences == 2
MaxUuid == 4

RuleIds == {1}

\* caller-supplied rules: daily from 2026-01-02T00:00
StoreStarts == {TicksPerDay}

StoreRules ==
    {RecurringExpense(0, p, s, i, n) :
        p \in Payloads, s \in StoreStarts, i \in {"daily"},
        n \in 0..MaxOccurrences}

InFlight(p) == pc[p] \notin {"idle", "done"}

DbExec(committed, written) == written

\* a statement run through tx.Exec changes nothing another session can read
\* until tx.Commit(); written is the table as the statement leaves it
TxExec(committed, written) == committed

NoRowLock(p, id) == FALSE

\* the primary-key row of rule id is locked by another open transaction that
\* has inserted, updated or deleted it
RowLocked(p, id) ==
    \E q \in Procs \ {p} : InFlight(q) /\ tx[q].rule # "none" /\ op[q].recExp.id = id

RuleRows(id) == {r \in recurring_expenses : r.id = id}

NeverNotFound(rowsAffected) == FALSE

\* rowsAffected == 0
NotFound(rowsAffected) == rowsAffected = 0

DeleteQueryFutureOnly(rows, id, all, t) ==
    {e \in rows : e.recurring_id = id /\ e.date > t}

DeleteQueryFromNow(rows, id, all, t) ==
    {e \in rows : e.recurring_id = id /\ (all \/ e.date >= t)}

DeleteQueryAnyRule(rows, id, all, t) ==
    {e \in rows : all \/ e.date > t}

\* DELETE FROM expenses WHERE recurring_id = $1 [AND date > $2]
DeleteQuery(rows, id, all, t) ==
    {e \in rows : e.recurring_id = id /\ (all \/ e.date > t)}

\* the flag UpdateRecurringExpense passes as fromToday
FromToday(updateAll) == ~updateAll

\* identifiers in use: caller-chosen rule ids, every stored or pending row and
\* the rules the stored entries refer to
Used ==
    RuleIds \cup {r.id : r \in recurring_expenses} \cup {e.id : e \in expenses}
        \cup {e.recurring_id : e \in expenses}
        \cup UNION {{op[q].recExp.id} \cup {e.id : e \in tx[q].ins} : q \in {r \in Procs : InFlight(r)}}

\* uuid.New() never returns an identifier in use; the model hands out the
\* smallest free ones among 1..MaxUuid, in ascending order
RECURSIVE Ascending(_)
Ascending(S) ==
    IF S = {} THEN <<>>
    ELSE LET m == CHOOSE x \in S : \A y \in S : x <= y IN <<m>> \o Ascending(S \ {m})

Unused == Ascending((1..MaxUuid) \ Used)

\* the id the rule was sent with is kept
PreparedAsSent(kind, id, recExp) ==
    [recExp EXCEPT !.id = IF kind = "create" /\ id = 0 THEN uuidNew(Unused, 1) ELSE recExp.id,
                   !.currency = IF recExp.currency = "" THEN defaults.currency
                                ELSE recExp.currency]

\* the rule as the call writes it: id generated or preserved, currency default
Prepared(kind, id, recExp) ==
    [recExp EXCEPT !.id = IF kind = "create" /\ id = 0 THEN uuidNew(Unused, 1) ELSE id,
                   !.currency = IF recExp.currency = "" THEN defaults.currency
                                ELSE recExp.currency]

End(p, result) ==
    /\ pc' = [pc EXCEPT ![p] = "done"]
    /\ res' = [res EXCEPT ![p] = result]

\* s.db.Begin() and the preparation of the rule, for each of the three calls
Begin(p, kind, id, recExp, all) ==
    /\ pc[p] = "idle"
    /\ op' = [op EXCEPT ![p] = [kind |-> kind, id |-> id,
                                recExp |-> Prepared(kind, id, recExp), all |-> all,
                                sent |-> recExp]]
    /\ tx' = [tx EXCEPT ![p] = NoTx]
    /\ pc' = [pc EXCEPT ![p] = "rule"]
    /\ UNCHANGED <<now, defaults, config, upd, recurring_expenses, expenses, res, call, out>>

AddRecurringExpense(p, ids, rules) ==
    \E id \in ids, r \in rules :
        /\ id = 0 => Unused # <<>>
        /\ Begin(p, "create", id, [r EXCEPT !.id = id], FALSE)

UpdateRecurringExpense(p, ids, rules, flags) ==
    \E id \in ids \cup {r.id : r \in recurring_expenses}, r \in rules, updateAll \in flags :
        /\ Begin(p, "update", id, r, updateAll)

RemoveRecurringExpense(p, ids) ==
    \E id \in ids \cup {r.id : r \in recurring_expenses}, removeAll \in BOOLEAN :
        /\ Begin(p, "remove", id, NoRule, removeAll)

\* a statement on the rule row waits while another transaction holds the row
Block(p) ==
    /\ pc[p] = "rule"
    /\ RowLocked(p, op[p].recExp.id)
    /\ op[p].kind = "create" \/ RuleRows(op[p].recExp.id) # {}
    /\ ~tx[p].waited
    /\ tx' = [tx EXCEPT ![p].waited = TRUE]
    /\ UNCHANGED <<now, defaults, config, upd, recurring_expenses, expenses, pc, op, res, call, out>>

\* INSERT INTO recurring_expenses: fails on an existing primary key
InsertRule(p) ==
    /\ pc[p] = "rule" /\ op[p].kind = "create"
    /\ ~RowLocked(p, op[p].recExp.id)
    /\ IF RuleRows(op[p].recExp.id) # {}
       THEN /\ End(p, "failed to insert recurring expense rule")
            /\ UNCHANGED <<recurring_expenses, tx>>
       ELSE /\ tx' = [tx EXCEPT ![p].rule = "put"]
            /\ recurring_expenses' =
                 TxExec(recurring_expenses, recurring_expenses \cup {op[p].recExp})
            /\ pc' = [pc EXCEPT ![p] = "insert"]
            /\ UNCHANGED res
    /\ UNCHANGED <<now, defaults, config, upd, expenses, op, call, out>>

\* UPDATE recurring_expenses ... WHERE id = $9 and the rowsAffected check
UpdateRule(p) ==
    /\ pc[p] = "rule" /\ op[p].kind = "update"
    /\ LET rows == RuleRows(op[p].id)
       IN  IF NotFound(Cardinality(rows))
           THEN /\ End(p, "not found")
                /\ UNCHANGED <<recurring_expenses, tx>>
           ELSE /\ ~RowLocked(p, op[p].id)
                /\ tx' = [tx EXCEPT ![p].rule = "put"]
                /\ recurring_expenses' =
                     TxExec(recurring_expenses,
                            (recurring_expenses \ rows) \cup {op[p].recExp})
                /\ pc' = [pc EXCEPT ![p] = "delete"]
                /\ UNCHANGED res
    /\ UNCHANGED <<now, defaults, config, upd, expenses, op, call, out>>

\* DELETE FROM recurring_expenses WHERE id = $1 and the rowsAffected check
DeleteRule(p) ==
    /\ pc[p] = "rule" /\ op[p].kind = "remove"
    /\ LET rows == RuleRows(op[p].id)
       IN  IF NotFound(Cardinality(rows))
           THEN /\ End(p, "not found")
                /\ UNCHANGED <<recurring_expenses, tx>>
           ELSE /\ ~RowLocked(p, op[p].id)
                /\ tx' = [tx EXCEPT ![p].rule = "del"]
                /\ recurring_expenses' = TxExec(recurring_expenses, recurring_expenses \ rows)
                /\ pc' = [pc EXCEPT ![p] = "delete"]
                /\ UNCHANGED res
    /\ UNCHANGED <<now, defaults, config, upd, expenses, op, call, out>>

\* the DELETE of the rule's expense rows, with time.Now() as the cutover
DeleteExpenses(p) ==
    /\ pc[p] = "delete"
    /\ LET gone == DeleteQuery(expenses, op[p].id, op[p].all, now)
       IN  /\ tx' = [tx EXCEPT ![p].del = gone, ![p].cut = now]
           /\ expenses' = TxExec(expenses, expenses \ gone)
    /\ pc' = [pc EXCEPT ![p] = IF op[p].kind = "update" THEN "insert" ELSE "commit"]
    /\ UNCHANGED <<now, defaults, config, upd, recurring_expenses, op, res, call, out>>

Range(s) == {s[i] : i \in 1..Len(s)}

\* generateExpensesFromRecurring and the COPY of its result into expenses
InsertExpenses(p) ==
    /\ pc[p] = "insert"
    /\ LET expensesToAdd ==
             generateExpensesFromRecurring(op[p].recExp,
                 IF op[p].kind = "update" THEN FromToday(op[p].all) ELSE FALSE, now, Unused)
       IN  /\ Len(expensesToAdd) <= Len(Unused)
           /\ tx' = [tx EXCEPT ![p].ins = Range(expensesToAdd), ![p].today = now]
           /\ expenses' = TxExec(expenses, expenses \cup Range(expensesToAdd))
    /\ pc' = [pc EXCEPT ![p] = "commit"]
    /\ UNCHANGED <<now, defaults, config, upd, recurring_expenses, op, res, call, out>>

\* tx.Commit(): everything the transaction wrote becomes visible at once
Commit(p) ==
    /\ pc[p] = "commit"
    /\ recurring_expenses' =
         IF tx[p].rule = "put"
         THEN (recurring_expenses \ RuleRows(op[p].recExp.id)) \cup {op[p].recExp}
         ELSE recurring_expenses \ RuleRows(op[p].id)
    /\ expenses' = (expenses \ tx[p].del) \cup tx[p].ins
    /\ End(p, "ok")
    /\ UNCHANGED <<now, defaults, config, upd, op, tx, call, out>>

\* a statement or the commit fails: the deferred tx.Rollback() runs
Fail(p) ==
    /\ pc[p] \in {"rule", "delete", "insert", "commit"}
    /\ End(p, "failed at " \o pc[p])
    /\ UNCHANGED <<now, defaults, config, upd, recurring_expenses, expenses, op, tx, call, out>>

\* s.db.Begin() fails
BeginFail(p) ==
    /\ pc[p] = "idle"
    /\ End(p, "failed to begin transaction")
    /\ UNCHANGED <<now, defaults, config, upd, recurring_expenses, expenses, op, tx, call, out>>

\* the call has returned; the request slot is free for the next call
Return(p) ==
    /\ pc[p] = "done"
    /\ pc' = [pc EXCEPT ![p] = "idle"]
    /\ op' = [op EXCEPT ![p] = NoOp]
    /\ tx' = [tx EXCEPT ![p] = NoTx]
    /\ res' = [res EXCEPT ![p] = ""]
    /\ UNCHANGED <<now, defaults, config, upd, recurring_expenses, expenses, call, out>>

Tick ==
    /\ now < MaxNow
    /\ now' = now + 1
    /\ UNCHANGED <<defaults, config, upd, recurring_expenses, expenses, pc, op, tx, res, call, out>>

Init ==
    /\ StoreIdle
    /\ call = NoCall
    /\ out = NoOut

\* one request at a time
Next ==
    \/ Tick
    \/ \E p \in {1} :
         \/ AddRecurringExpense(p, RuleIds, StoreRules)
         \/ UpdateRecurringExpense(p, RuleIds, StoreRules, BOOLEAN)
         \/ RemoveRecurringExpense(p, RuleIds)
         \/ BeginFail(p)
         \/ Return(p)
         \/ InsertRule(p)
         \/ UpdateRule(p)
         \/ DeleteRule(p)
         \/ DeleteExpenses(p)
         \/ InsertExpenses(p)
         \/ Commit(p)
         \/ Fail(p)

Spec == Init /\ [][Next]_vars

\* the rules a caller can send that leave the stored rule row as it is
StoredRules == {r \in StoreRules : \E id \in RuleIds : Prepared("update", id, r) \in recurring_expenses}

\* one request at a time; after a full materialization (Create, or Update of
\* every instance) only Updates of the future instances with the stored rule
NextBudget ==
    \/ Tick
    \/ \E p \in {1} :
         \/ AddRecurringExpense(p, RuleIds, StoreRules)
         \/ UpdateRecurringExpense(p, RuleIds, StoreRules, {TRUE})
         \/ UpdateRecurringExpense(p, RuleIds, StoredRules, {FALSE})
         \/ BeginFail(p)
         \/ Return(p)
         \/ InsertRule(p)
         \/ UpdateRule(p)
         \/ DeleteExpenses(p)
         \/ InsertExpenses(p)
         \/ Commit(p)
         \/ Fail(p)

SpecBudget == Init /\ [][NextBudget]_vars

\* the rules of the concurrent requests: the largest budget
ConcurrentRules == {r \in StoreRules : r.occurrences = MaxOccurrences}

\* the store after AddRecurringExpense has committed a rule under id 1
InitConcurrent ==
    /\ now = 0
    /\ defaults = [currency |-> ""]
    /\ config = {}
    /\ upd = [p \in Procs |-> NoUpd]
    /\ \E r \in ConcurrentRules :
         LET recExp == [r EXCEPT !.id = 1]
         IN  /\ recurring_expenses = {recExp}
             /\ expenses = Range(generateExpensesFromRecurring(recExp, FALSE, 0,
                                                               [i \in 1..MaxUuid |-> i]))
    /\ pc = [p \in Procs |-> "idle"]
    /\ op = [p \in Procs |-> NoOp]
    /\ tx = [p \in Procs |-> NoTx]
    /\ res = [p \in Procs |-> ""]
    /\ call = NoCall
    /\ out = NoOut

\* two requests, each updating the rule once, in any interleaving
NextConcurrent ==
    \/ Tick
    \/ \E p \in Procs :
         \/ UpdateRecurringExpense(p, RuleIds, ConcurrentRules, BOOLEAN)
         \/ BeginFail(p)
         \/ Block(p)
         \/ UpdateRule(p)
         \/ DeleteExpenses(p)
         \/ InsertExpenses(p)
         \/ Commit(p)
         \/ Fail(p)

SpecConcurrent == InitConcurrent /\ [][NextConcurrent]_vars

\* the rules created: no budget or the largest one
CreateRules == {r \in StoreRules : r.occurrences \in {0, MaxOccurrences}}

\* one request at a time creating rules, with a caller-chosen id or none, and
\* removing them
NextCreate ==
    \/ Tick
    \/ \E p \in {1} :
         \/ AddRecurringExpense(p, RuleIds \cup {0}, CreateRules)
         \/ RemoveRecurringExpense(p, RuleIds)
         \/ BeginFail(p)
         \/ Return(p)
         \/ InsertRule(p)
         \/ DeleteRule(p)
         \/ DeleteExpenses(p)
         \/ InsertExpenses(p)
         \/ Commit(p)
         \/ Fail(p)

SpecCreate == Init /\ [][NextCreate]_vars

\* ----------------------------------------------- direct entry operations
\* time.Time{}: the date of an expense sent without one
ZeroTime == 0 - 1

\* expenses a caller sends: with or without a currency, a date and a reference
\* to a rule
SentExpenses ==
    {[id |-> 0, recurring_id |-> ref, name |-> "lunch", category |-> "Food",
      subcategory |-> "", amount |-> 12, currency |-> c, date |-> d, tags |-> <<>>] :
        ref \in RuleIds \cup {0}, c \in {"", "CHF"}, d \in {ZeroTime, TicksPerDay}}

\* AddExpense: one INSERT outside any transaction; it fails on an existing id
AddExpense ==
    \E sent \in SentExpenses :
        /\ sent.id = 0 => Unused # <<>>
        /\ LET expense ==
                 [sent EXCEPT !.id = IF sent.id = 0 THEN uuidNew(Unused, 1) ELSE sent.id,
                              !.currency = IF sent.currency = "" THEN defaults.currency
                                           ELSE sent.currency,
                              !.date = IF sent.date = ZeroTime THEN now ELSE sent.date]
           IN  expenses' = IF \E e \in expenses : e.id = expense.id THEN expenses
                           ELSE expenses \cup {expense}
        /\ UNCHANGED <<now, defaults, config, upd, recurring_expenses, pc, op, tx, res, call, out>>

\* UPDATE expenses SET ..., recurring_id = $8 WHERE id = $9
UpdateQuery(rows, id, expense) ==
    {IF e.id = id THEN [expense EXCEPT !.id = id] ELSE e : e \in rows}

\* UpdateExpense: not found when no row has the id
UpdateExpense ==
    \E id \in 1..MaxUuid, sent \in SentExpenses :
        /\ LET expense ==
                 [sent EXCEPT !.currency = IF sent.currency = "" THEN defaults.currency
                                           ELSE sent.currency]
           IN  expenses' = UpdateQuery(expenses, id, expense)
        /\ UNCHANGED <<now, defaults, config, upd, recurring_expenses, pc, op, tx, res, call, out>>

\* RemoveExpense: DELETE FROM expenses WHERE id = $1; not found when no row
\* has the id
RemoveExpense ==
    \E id \in 1..MaxUuid :
        /\ expenses' = {e \in expenses : e.id # id}
        /\ UNCHANGED <<now, defaults, config, upd, recurring_expenses, pc, op, tx, res, call, out>>

\* RemoveMultipleExpenses: DELETE FROM expenses WHERE id = ANY($1)
RemoveMultipleExpenses ==
    \E ids \in SUBSET (1..MaxUuid) :
        /\ expenses' = IF ids = {} THEN expenses ELSE {e \in expenses : e.id \notin ids}
        /\ UNCHANGED <<now, defaults, config, upd, recurring_expenses, pc, op, tx, res, call, out>>

\* the store after AddRecurringExpense has committed a rule under id 1 with
\* one entry
InitEntries ==
    /\ now = 0
    /\ defaults = [currency |-> ""]
    /\ config = {}
    /\ upd = [p \in Procs |-> NoUpd]
    /\ \E r \in {x \in StoreRules : x.occurrences = 1} :
         LET recExp == [r EXCEPT !.id = 1]
         IN  /\ recurring_expenses = {recExp}
             /\ expenses = Range(generateExpensesFromRecurring(recExp, FALSE, 0,
                                     Ascending((1..MaxUuid) \ RuleIds)))
    /\ pc = [p \in Procs |-> "idle"]
    /\ op = [p \in Procs |-> NoOp]
    /\ tx = [p \in Procs |-> NoTx]
    /\ res = [p \in Procs |-> ""]
    /\ call = NoCall
    /\ out = NoOut

\* the direct entry operations, one at a time
NextEntries ==
    \/ AddExpense
    \/ UpdateExpense
    \/ RemoveExpense
    \/ RemoveMultipleExpenses

SpecEntries == InitEntries /\ [][NextEntries]_vars

\* ---------------------------------------------------------- configuration
Currencies == {"usd", "eur"}

\* saveConfig: the upsert of the one row of table config, which may fail, and
\* the write of the cached defaults, done whether it failed or not
saveConfig(c, failed) ==
    /\ config' = IF failed THEN config ELSE {c}
    /\ defaults' = [defaults EXCEPT !.currency = c.currency]

\* a configuration with one category, no subcategory and the given currency
OneCategory(currency) == Config(<<"Food">>, currency, [k \in SubCategoryKeys |-> <<>>])

\* InitializePostgresStore on a new database or on one that holds a
\* configuration: the cached defaults are empty
InitConfig ==
    /\ now = 0
    /\ defaults = [currency |-> ""]
    /\ config \in {{}} \cup {{OneCategory(c)} : c \in Currencies}
    /\ upd = [p \in Procs |-> NoUpd]
    /\ recurring_expenses = {}
    /\ expenses = {}
    /\ pc = [p \in Procs |-> "idle"]
    /\ op = [p \in Procs |-> NoOp]
    /\ tx = [p \in Procs |-> NoTx]
    /\ res = [p \in Procs |-> ""]
    /\ call = NoCall
    /\ out = NoOut

\* the rules sent while the configuration changes: one occurrence
ConfigRules == {r \in StoreRules : r.occurrences = 1}

\* configuration saves and lifecycle requests, one call at a time
NextConfig ==
    \/ /\ \A p \in Procs : ~InFlight(p)
       /\ \E c \in Currencies, failed \in BOOLEAN : saveConfig(OneCategory(c), failed)
       /\ UNCHANGED <<now, upd, recurring_expenses, expenses, pc, op, tx, res, call, out>>
    \/ \E p \in {1} :
         \/ AddRecurringExpense(p, RuleIds, ConfigRules)
         \/ UpdateRecurringExpense(p, RuleIds, ConfigRules, BOOLEAN)
         \/ BeginFail(p)
         \/ Return(p)
         \/ InsertRule(p)
         \/ UpdateRule(p)
         \/ DeleteExpenses(p)
         \/ InsertExpenses(p)
         \/ Commit(p)
         \/ Fail(p)

SpecConfig == InitConfig /\ [][NextConfig]_vars

\* ----------------------------------------------------------- rule identity
\* the rules of the identity check: one occurrence
IdentityRules == {r \in StoreRules : r.occurrences = 1}

\* an Update may carry any id in its rule: none, a caller-chosen one or the id
\* of a stored rule
Carrying(rules) ==
    {[r EXCEPT !.id = i] : r \in rules,
                           i \in {0} \cup RuleIds \cup {x.id : x \in recurring_expenses}}

\* one request at a time creating and updating rules
NextIdentity ==
    \/ Tick
    \/ \E p \in {1} :
         \/ AddRecurringExpense(p, RuleIds \cup {0}, IdentityRules)
         \/ UpdateRecurringExpense(p, RuleIds, Carrying(IdentityRules), BOOLEAN)
         \/ BeginFail(p)
         \/ Return(p)
         \/ InsertRule(p)
         \/ UpdateRule(p)
         \/ DeleteExpenses(p)
         \/ InsertExpenses(p)
         \/ Commit(p)
         \/ Fail(p)

SpecIdentity == Init /\ [][NextIdentity]_vars

\* ------------------------------------------------- requests on two rules
\* request 1 works on the rule with id 1, request 2 on a rule with another
\* caller-chosen id
RuleOf(p) == IF p = 1 THEN 1 ELSE MaxUuid + 1

\* the rules sent: one occurrence
PairRules == {r \in StoreRules : r.occurrences = 1}

\* a store in which each of the two rules is absent or was created with its
\* entry
InitPair ==
    /\ now = 0
    /\ defaults = [currency |-> ""]
    /\ config = {}
    /\ upd = [p \in Procs |-> NoUpd]
    /\ \E stored \in [Procs -> {r \in PairRules : r.currency # ""} \cup {NoRule}] :
         LET there == {p \in Procs : stored[p] # NoRule}
             recExp(p) == [stored[p] EXCEPT !.id = RuleOf(p)]
         IN  /\ recurring_expenses = {recExp(p) : p \in there}
             /\ expenses = UNION {Range(generateExpensesFromRecurring(recExp(p), FALSE, 0,
                                            <<1 + p>>)) : p \in there}
    /\ pc = [p \in Procs |-> "idle"]
    /\ op = [p \in Procs |-> NoOp]
    /\ tx = [p \in Procs |-> NoTx]
    /\ res = [p \in Procs |-> ""]
    /\ call = NoCall
    /\ out = NoOut

\* two requests, each making one call on its own rule, in any interleaving
NextPair ==
    \/ Tick
    \/ \E p \in Procs :
         \/ \E r \in PairRules : Begin(p, "create", RuleOf(p), [r EXCEPT !.id = RuleOf(p)], FALSE)
         \/ \E r \in PairRules, updateAll \in BOOLEAN : Begin(p, "update", RuleOf(p), r, updateAll)
         \/ \E removeAll \in BOOLEAN : Begin(p, "remove", RuleOf(p), NoRule, removeAll)
         \/ BeginFail(p)
         \/ InsertRule(p)
         \/ UpdateRule(p)
         \/ DeleteRule(p)
         \/ DeleteExpenses(p)
         \/ InsertExpenses(p)
         \/ Commit(p)
         \/ Fail(p)

SpecPair == InitPair /\ [][NextPair]_vars

\* ---------------------------------------------------------- HTTP handlers
\* what the handlers UpdateRecurringExpense and DeleteRecurringExpense write
\* once the storage call has returned err ("ok" for nil)
Response(kind, err) ==
    IF err = "ok" THEN [status |-> 200, body |-> "success"]
    ELSE [status |-> 500,
          body |-> IF kind = "update" THEN "Failed to update recurring expense"
                   ELSE "Failed to delete recurring expense"]

\* the errors the storage calls return for other reasons than a missing rule
StorageFailures ==
    {"failed to begin transaction"} \cup {"failed at " \o at : at \in {"rule", "delete", "insert", "commit"}}

\* ------------------------------------------------------- query of one rule
\* RecurringExpense{}
ZeroRule ==
    [id |-> 0, name |-> "", amount |-> 0, currency |-> "", category |-> "",
     start_date |-> ZeroTime, interval |-> "", occurrences |-> 0, tags |-> <<>>]

\* the destinations scanRecurringExpense hands to Scan, in order
ScanTargets ==
    <<"id", "name", "amount", "currency", "category", "start_date", "interval",
      "occurrences", "tags">>

\* the columns the query of GetRecurringExpense selects
OneColumns ==
    <<"id", "name", "amount", "category", "start_date", "interval", "occurrences", "tags">>

\* scanRecurringExpense on the result of QueryRow: sql.ErrNoRows without a
\* row, an error when the number of destinations is not the number of
\* columns, and otherwise the i-th column stored into the i-th destination
scanRecurringExpense(columns, rows) ==
    IF rows = {} THEN [err |-> "sql: no rows in result set", re |-> ZeroRule]
    ELSE IF Len(columns) # Len(ScanTargets)
         THEN [err |-> "sql: expected destination arguments in Scan", re |-> ZeroRule]
         ELSE LET row == CHOOSE r \in rows : TRUE
                  at(f) == CHOOSE i \in 1..Len(ScanTargets) : ScanTargets[i] = f
              IN  [err |-> "", re |-> [f \in DOMAIN ZeroRule |-> row[columns[at(f)]]]]

\* GetRecurringExpense(id) on the committed table
GetRecurringExpense(id) ==
    LET got == scanRecurringExpense(OneColumns, RuleRows(id))
    IN  IF got.err = "" THEN got
        ELSE IF got.err = "sql: no rows in result set"
             THEN [err |-> "not found", re |-> ZeroRule]
             ELSE [err |-> "failed to get recurring expense", re |-> ZeroRule]

\* ------------------------------------------------- subcategory mapping
\* a string is a sequence of characters
MaxName == 2
MaxMappingRules == 2

Chars == {"a", "A", "b"}

\* strings.ToLower
ToLower(str) == [i \in 1..Len(str) |-> IF str[i] = "A" THEN "a" ELSE str[i]]

\* strings.Contains: substr occurs in str at offset i or later
RECURSIVE ContainsFrom(_, _, _)
ContainsFrom(str, substr, i) ==
    IF i + Len(substr) - 1 > Len(str) THEN FALSE
    ELSE IF SubSeq(str, i, i + Len(substr) - 1) = substr THEN TRUE
         ELSE ContainsFrom(str, substr, i + 1)

Contains(str, substr) == ContainsFrom(str, substr, 1)

matchesPattern(transactionName, rule) ==
    CASE rule.MatchType = "exact" -> rule.Pattern = transactionName
      [] rule.MatchType = "contains" ->
            Contains(ToLower(transactionName), ToLower(rule.Pattern))
      [] OTHER -> FALSE

\* the loop of ApplyMapping over m.rules, from index i on
RECURSIVE ApplyMappingFrom(_, _, _, _)
ApplyMappingFrom(rules, i, transactionName, category) ==
    IF i > Len(rules) THEN ""
    ELSE IF rules[i].Category # category
         THEN ApplyMappingFrom(rules, i + 1, transactionName, category)
         ELSE IF matchesPattern(transactionName, rules[i]) THEN rules[i].SubCategory
              ELSE ApplyMappingFrom(rules, i + 1, transactionName, category)

\* the loop of ApplyMappingWithCategory over m.rules, from index i on
RECURSIVE ApplyMappingWithCategoryFrom(_, _, _)
ApplyMappingWithCategoryFrom(rules, i, transactionName) ==
    IF i > Len(rules) THEN [Category |-> "", SubCategory |-> ""]
    ELSE IF matchesPattern(transactionName, rules[i])
         THEN [Category |-> rules[i].Category, SubCategory |-> rules[i].SubCategory]
         ELSE ApplyMappingWithCategoryFrom(rules, i + 1, transactionName)

Categories == {"Food", "Fun"}

\* the last matching rule wins
ApplyMappingLastMatch(rules, transactionName, category) ==
    LET hits == {i \in 1..Len(rules) : rules[i].Category = category
                                        /\ matchesPattern(transactionName, rules[i])}
    IN  IF hits = {} THEN ""
        ELSE rules[CHOOSE i \in hits : \A j \in hits : j <= i].SubCategory

ApplyMapping(rules, transactionName, category) ==
    ApplyMappingFrom(rules, 1, transactionName, category)

ApplyMappingWithCategory(rules, transactionName) ==
    ApplyMappingWithCategoryFrom(rules, 1, transactionName)

\* the rules NewMappingEngine accepts
MappingRules ==
    [Pattern : {<<"a">>, <<"A", "b">>}, MatchType : {"exact", "contains"},
     Category : Categories, SubCategory : {"s1", "s2"}]

Names == UNION {[1..n -> Chars] : n \in 0..MaxName}

InitMapping ==
    /\ StoreIdle
    /\ \E rules \in UNION {[1..n -> MappingRules] : n \in 0..MaxMappingRules},
          name \in Names, category \in Categories :
            call = [rules |-> rules, transactionName |-> name, category |-> category]
    /\ out = [done |-> FALSE]

ApplyMappingCall ==
    /\ ~out.done
    /\ out' = [done |-> TRUE, fn |-> "ApplyMapping", Category |-> call.category,
               SubCategory |-> ApplyMapping(call.rules, call.transactionName, call.category)]
    /\ UNCHANGED <<now, defaults, config, upd, recurring_expenses, expenses, pc, op, tx, res, call>>

ApplyMappingWithCategoryCall ==
    /\ ~out.done
    /\ LET got == ApplyMappingWithCategory(call.rules, call.transactionName)
       IN  out' = [done |-> TRUE, fn |-> "ApplyMappingWithCategory",
                   Category |-> got.Category, SubCategory |-> got.SubCategory]
    /\ UNCHANGED <<now, defaults, config, upd, recurring_expenses, expenses, pc, op, tx, res, call>>

NextMapping == ApplyMappingCall \/ ApplyMappingWithCategoryCall

SpecMapping == InitMapping /\ [][NextMapping]_vars

\* ------------------------------------------------------------ monthly trend
MaxMonths == 3
DefaultMonths == 12

\* time.Date(year, month, day, 0, 0, 0, 0, time.UTC)
Date(year, month, day) == DateToDay(year, month, day) * TicksPerDay

\* monthStart.Format("Jan 2006"): the year and the month of an instant
Format(t) == <<YearOf(t \div TicksPerDay), MonthOf(t \div TicksPerDay)>>

RECURSIVE Sum(_)
Sum(amounts) ==
    IF amounts = {} THEN 0
    ELSE LET e == CHOOSE x \in amounts : TRUE IN e.amount + Sum(amounts \ {e})

\* the body of the loop of calculateMonthlyTrend for i months back
MonthlyData(rows, startDate, i, t) ==
    LET targetDate == AddDate(t, 0, 0 - i, 0)
        day == targetDate \div TicksPerDay
        monthStart == IF DayOf(day) >= startDate
                      THEN Date(YearOf(day), MonthOf(day), startDate)
                      ELSE Date(YearOf(day), MonthOf(day) - 1, startDate)
        monthEnd == IF DayOf(day) >= startDate
                    THEN Date(YearOf(day), MonthOf(day) + 1, startDate)
                    ELSE Date(YearOf(day), MonthOf(day), startDate)
        counted == {e \in rows : ~(e.date < monthStart \/ e.date > monthEnd)}
        income == Sum({e \in counted : e.amount >= 0})
        expenseTotal == 0 - Sum({e \in counted : e.amount < 0})
    IN  [Month |-> Format(monthStart), TotalIncome |-> income,
         TotalExpenses |-> expenseTotal, Balance |-> income - expenseTotal]

\* calculateMonthlyTrend: i runs from months - 1 down to 0
calculateMonthlyTrend(rows, startDate, months, t) ==
    [k \in 1..months |-> MonthlyData(rows, startDate, months - k, t)]

\* GetMonthlyExpenses: the trend over the requested number of months, 12 when
\* the request has no months parameter (0 here)
GetMonthlyExpenses(rows, startDate, months, t) ==
    calculateMonthlyTrend(rows, startDate, IF months = 0 THEN DefaultMonths ELSE months, t)

\* the current times of the trend: days of 2027, at the first tick of the day
\* and at the last
TrendNows ==
    {Date(2027, m, d) + h : m \in {1, 3, 12}, d \in {1, 15, 28, 29, 31}, h \in {0, TicksPerDay - 1}}

\* stored expenses: a salary and a purchase, at two dates each
TrendExpenses ==
    {[id |-> i, recurring_id |-> 0, name |-> "x", category |-> "Food", subcategory |-> "",
      amount |-> a, currency |-> "usd", date |-> d, tags |-> <<>>] :
        i \in {1}, a \in {0 - 100, 50}, d \in {Date(2027, 1, 1), Date(2027, 2, 15)}}

InitTrend ==
    /\ now \in TrendNows
    /\ defaults = [currency |-> ""]
    /\ config = {}
    /\ upd = [p \in Procs |-> NoUpd]
    /\ recurring_expenses = {}
    /\ expenses \in {{}} \cup {{e} : e \in TrendExpenses}
    /\ pc = [p \in Procs |-> "idle"]
    /\ op = [p \in Procs |-> NoOp]
    /\ tx = [p \in Procs |-> NoTx]
    /\ res = [p \in Procs |-> ""]
    /\ \E months \in 0..MaxMonths, startDate \in {1, 15} :
         call = [months |-> months, startDate |-> startDate]
    /\ out = [done |-> FALSE]

GetMonthlyExpensesCall ==
    /\ ~out.done
    /\ out' = [done |-> TRUE,
               trend |-> GetMonthlyExpenses(expenses, call.startDate, call.months, now)]
    /\ UNCHANGED <<now, defaults, config, upd, recurring_expenses, expenses, pc, op, tx, res, call>>

NextTrend == GetMonthlyExpensesCall

SpecTrend == InitTrend /\ [][NextTrend]_vars

\* ------------------------------------------ unrecognized interval kinds
\* caller-supplied rules whose interval is none of the four the switch knows
InvalidRules ==
    {RecurringExpense(0, p, s, "hourly", n) :
        p \in {q \in Payloads : q.name = "gym"}, s \in StoreStarts, n \in 0..MaxOccurrences}

\* either one call of generateExpensesFromRecurring on its own, or the idle store
InitInvalid ==
    /\ StoreIdle
    /\ out = NoOut
    /\ \/ call = NoCall
       \/ \E r \in {x \in ExpandRules : x.interval \notin Intervals}, f \in BOOLEAN :
            \E t \in Todays(r) : call = [recExp |-> r, fromToday |-> f, today |-> t]

\* the call on its own, or one request at a time creating and updating a rule
\* with an unrecognized interval
NextInvalid ==
    \/ call # NoCall /\ ExpandCall
    \/ call = NoCall /\ Tick
    \/ \E p \in {1} :
         \/ call = NoCall /\ AddRecurringExpense(p, RuleIds, InvalidRules)
         \/ call = NoCall /\ UpdateRecurringExpense(p, RuleIds, InvalidRules, BOOLEAN)
         \/ call = NoCall /\ BeginFail(p)
         \/ call = NoCall /\ Return(p)
         \/ call = NoCall /\ InsertRule(p)
         \/ call = NoCall /\ UpdateRule(p)
         \/ call = NoCall /\ DeleteExpenses(p)
         \/ call = NoCall /\ InsertExpenses(p)
         \/ call = NoCall /\ Commit(p)
         \/ call = NoCall /\ Fail(p)

SpecInvalid == InitInvalid /\ [][NextInvalid]_vars

\* ------------------------------------------------- rules without a budget
\* the rules a caller sends with occurrences 0
UnboundedRules == {r \in StoreRules : r.occurrences = 0 /\ r.name = "gym"}

\* either one call of generateExpensesFromRecurring with fromToday on a rule
\* without a budget, or the idle store
InitUnbounded ==
    /\ StoreIdle
    /\ out = NoOut
    /\ \/ call = NoCall
       \/ \E r \in {x \in ExpandRules : x.occurrences = 0} :
            \E t \in Todays(r) : call = [recExp |-> r, fromToday |-> TRUE, today |-> t]

\* the call on its own, or one request at a time: rules are created with any
\* budget and updated to rules without one
NextUnbounded ==
    \/ call # NoCall /\ ExpandCall
    \/ call = NoCall /\ Tick
    \/ \E p \in {1} :
         \/ call = NoCall /\ AddRecurringExpense(p, RuleIds, {r \in StoreRules : r.name = "gym"})
         \/ call = NoCall /\ UpdateRecurringExpense(p, RuleIds, UnboundedRules, BOOLEAN)
         \/ call = NoCall /\ BeginFail(p)
         \/ call = NoCall /\ Return(p)
         \/ call = NoCall /\ InsertRule(p)
         \/ call = NoCall /\ UpdateRule(p)
         \/ call = NoCall /\ DeleteExpenses(p)
         \/ call = NoCall /\ InsertExpenses(p)
         \/ call = NoCall /\ Commit(p)
         \/ call = NoCall /\ Fail(p)

SpecUnbounded == InitUnbounded /\ [][NextUnbounded]_vars

\* ------------------------------------------------------ freestanding entries
\* entries AddExpense has stored without a back-reference under identifiers of
\* their own: one dated 2026-01-01T00:00 and one dated 2026-01-03T00:00, the
\* second with the name, category and amount of a rule
FreeEntries ==
    {[id |-> MaxUuid + 1, recurring_id |-> 0, name |-> "lunch", category |-> "Food",
      subcategory |-> "", amount |-> 12, currency |-> "CHF", date |-> 0, tags |-> <<>>],
     [id |-> MaxUuid + 2, recurring_id |-> 0, name |-> "gym", category |-> "Health",
      subcategory |-> "", amount |-> 20, currency |-> "EUR", date |-> 2 * TicksPerDay,
      tags |-> <<"fit">>]}

FreeRules == {r \in StoreRules : r.name = "gym" /\ r.occurrences \in {0, MaxOccurrences}}

InitFree ==
    /\ now = 0
    /\ defaults = [currency |-> ""]
    /\ config = {}
    /\ upd = [p \in Procs |-> NoUpd]
    /\ recurring_expenses = {}
    /\ expenses = FreeEntries
    /\ pc = [p \in Procs |-> "idle"]
    /\ op = [p \in Procs |-> NoOp]
    /\ tx = [p \in Procs |-> NoTx]
    /\ res = [p \in Procs |-> ""]
    /\ call = NoCall
    /\ out = NoOut

\* one request at a time; the id of a call is a rule id or the empty string
NextFree ==
    \/ Tick
    \/ \E p \in {1} :
         \/ AddRecurringExpense(p, RuleIds \cup {0}, FreeRules)
         \/ UpdateRecurringExpense(p, RuleIds \cup {0}, FreeRules, BOOLEAN)
         \/ RemoveRecurringExpense(p, RuleIds \cup {0})
         \/ BeginFail(p)
         \/ Return(p)
         \/ InsertRule(p)
         \/ UpdateRule(p)
         \/ DeleteRule(p)
         \/ DeleteExpenses(p)
         \/ InsertExpenses(p)
         \/ Commit(p)
         \/ Fail(p)

SpecFree == InitFree /\ [][NextFree]_vars

\* ---------------------------------------------------- configuration updates
MaxList == 3

SubCategoryNames == {"snack", "meal"}

\* the closure AddSubCategory passes to updateConfig
AddSubCategoryFunc(c, category, subCategory) ==
    IF \E i \in 1..Len(c.subcategories[category]) : c.subcategories[category][i] = subCategory
    THEN [err |-> "already exists", c |-> c]
    ELSE [err |-> "", c |-> [c EXCEPT !.subcategories[category] = Append(@, subCategory)]]

\* the closure of RemoveSubCategory: every element equal to the name goes
RemoveSubCategoryFunc(c, category, subCategory) ==
    LET subCategories == c.subcategories[category]
        Keep(sc) == sc # subCategory
    IN  IF \E i \in 1..Len(subCategories) : subCategories[i] = subCategory
        THEN [err |-> "", c |-> [c EXCEPT !.subcategories[category] = SelectSeq(subCategories, Keep)]]
        ELSE [err |-> "not found", c |-> c]

\* the closure of RenameSubCategory: the first element equal to oldName is
\* overwritten with newName
RenameSubCategoryFunc(c, category, oldName, newName) ==
    LET subCategories == c.subcategories[category]
        found == {i \in 1..Len(subCategories) : subCategories[i] = oldName}
    IN  IF found # {}
        THEN LET i == CHOOSE x \in found : \A y \in found : x <= y
             IN  [err |-> "", c |-> [c EXCEPT !.subcategories[category][i] = newName]]
        ELSE [err |-> "not found", c |-> c]

\* the closures of UpdateCurrency and UpdateCategories
UpdateCurrencyFunc(c, currency) == [err |-> "", c |-> [c EXCEPT !.currency = currency]]

UpdateCategoriesFunc(c, categories) == [err |-> "", c |-> [c EXCEPT !.categories = categories]]

\* updater(config) for the operation of a call
Updater(u) ==
    CASE u.kind = "AddSubCategory"    -> AddSubCategoryFunc(u.c, u.category, u.a)
      [] u.kind = "RemoveSubCategory" -> RemoveSubCategoryFunc(u.c, u.category, u.a)
      [] u.kind = "RenameSubCategory" -> RenameSubCategoryFunc(u.c, u.category, u.a, u.b)
      [] u.kind = "UpdateCurrency"    -> UpdateCurrencyFunc(u.c, u.a)
      [] u.kind = "UpdateCategories"  -> UpdateCategoriesFunc(u.c, u.list)

\* the first statement of updateConfig: GetConfig reads the row of table
\* config, or fails; the table holds a row
GetConfig(p, kind, category, a, b, list) ==
    /\ upd[p].pc = "idle"
    /\ config # {}
    /\ \E failed \in BOOLEAN, row \in config :
         upd' = [upd EXCEPT ![p] =
                    [kind |-> kind, category |-> category, a |-> a, b |-> b, list |-> list,
                     pc |-> IF failed THEN "done" ELSE "read",
                     c |-> IF failed THEN NoConfig ELSE row,
                     err |-> IF failed THEN "failed to get config from db" ELSE ""]]
    /\ UNCHANGED <<now, defaults, config, recurring_expenses, expenses, pc, op, tx, res, call, out>>

AddSubCategory(p) ==
    \E category \in SubCategoryKeys, subCategory \in SubCategoryNames :
        /\ \A row \in config : Len(row.subcategories[category]) < MaxList
        /\ GetConfig(p, "AddSubCategory", category, subCategory, "", <<>>)

RemoveSubCategory(p) ==
    \E category \in SubCategoryKeys, subCategory \in SubCategoryNames :
        /\ upd[p].pc = "idle"
        /\ GetConfig(p, "RemoveSubCategory", category, subCategory, "", <<>>)

RenameSubCategory(p) ==
    \E category \in SubCategoryKeys, oldName \in SubCategoryNames, newName \in SubCategoryNames :
        /\ upd[p].pc = "idle"
        /\ GetConfig(p, "RenameSubCategory", category, oldName, newName, <<>>)

\* the currency is one of SupportedCurrencies
UpdateCurrency(p) ==
    \E currency \in Currencies :
        /\ upd[p].pc = "idle"
        /\ GetConfig(p, "UpdateCurrency", "", currency, "", <<>>)

UpdateCategories(p) ==
    \E categories \in {<<"Food">>, <<"Food", "Fun">>} :
        /\ upd[p].pc = "idle"
        /\ GetConfig(p, "UpdateCategories", "", "", "", categories)

\* the rest of updateConfig: the updater runs on the configuration read and,
\* unless it returns an error, saveConfig writes the whole row
updateConfig(p) ==
    /\ upd[p].pc = "read"
    /\ LET r == Updater(upd[p])
       IN  IF r.err # ""
           THEN /\ upd' = [upd EXCEPT ![p].pc = "done", ![p].err = r.err]
                /\ UNCHANGED <<config, defaults>>
           ELSE \E failed \in BOOLEAN :
                  /\ saveConfig(r.c, failed)
                  /\ upd' = [upd EXCEPT ![p].pc = "done",
                                        ![p].err = IF failed THEN "failed to save" ELSE ""]
    /\ UNCHANGED <<now, recurring_expenses, expenses, pc, op, tx, res, call, out>>

\* the call has returned
ReturnConfig(p) ==
    /\ upd[p].pc = "done"
    /\ upd' = [upd EXCEPT ![p] = NoUpd]
    /\ UNCHANGED <<now, defaults, config, recurring_expenses, expenses, pc, op, tx, res, call, out>>

\* a store whose table config holds a row: one category, one subcategory
InitUpdates ==
    /\ now = 0
    /\ defaults = [currency |-> ""]
    /\ config = {Config(<<"Food">>, "usd", [k \in SubCategoryKeys |->
                                              IF k = "Food" THEN <<"snack">> ELSE <<>>])}
    /\ upd = [p \in Procs |-> NoUpd]
    /\ recurring_expenses = {}
    /\ expenses = {}
    /\ pc = [p \in Procs |-> "idle"]
    /\ op = [p \in Procs |-> NoOp]
    /\ tx = [p \in Procs |-> NoTx]
    /\ res = [p \in Procs |-> ""]
    /\ call = NoCall
    /\ out = NoOut

\* two requests, each changing the configuration once, in any interleaving
NextLost ==
    \E p \in Procs :
        \/ AddSubCategory(p)
        \/ UpdateCurrency(p)
        \/ UpdateCategories(p)
        \/ updateConfig(p)

SpecLost == InitUpdates /\ [][NextLost]_vars

\* one request at a time managing the subcategory lists
NextSubCategories ==
    \E p \in {1} :
        \/ AddSubCategory(p)
        \/ RemoveSubCategory(p)
        \/ RenameSubCategory(p)
        \/ updateConfig(p)
        \/ ReturnConfig(p)

SpecSubCategories == InitUpdates /\ [][NextSubCategories]_vars

\* ------------------------------------------------------------ TRMNL summary
\* the months of trend GetTRMNLData asks for
TrendMonths == 12

\* GetTRMNLData: the totals of the current period and the trend of the last
\* twelve months; t is the reading of time.Now()
TRMNLResponse(rows, startDate, t) ==
    LET day == t \div TicksPerDay
        monthStart == IF DayOf(day) >= startDate
                      THEN Date(YearOf(day), MonthOf(day), startDate)
                      ELSE Date(YearOf(day), MonthOf(day) - 1, startDate)
        monthEnd == IF DayOf(day) >= startDate
                    THEN Date(YearOf(day), MonthOf(day) + 1, startDate)
                    ELSE Date(YearOf(day), MonthOf(day), startDate)
        counted == {e \in rows : ~(e.date < monthStart \/ e.date > monthEnd)}
        totalIncome == Sum({e \in counted : e.amount >= 0})
        totalExpenses == 0 - Sum({e \in counted : e.amount < 0})
    IN  [done |-> TRUE, Month |-> Format(monthStart), TotalIncome |-> totalIncome,
         TotalExpenses |-> totalExpenses, Balance |-> totalIncome - totalExpenses,
         MonthlyTrend |-> calculateMonthlyTrend(rows, startDate, TrendMonths, t)]

\* stored expenses dated at the first instant of a start day, in the middle of
\* a period and at the last instant before a start day
PeriodExpenses ==
    {[id |-> 1, recurring_id |-> 0, name |-> "x", category |-> "Food", subcategory |-> "",
      amount |-> a, currency |-> "usd", date |-> d, tags |-> <<>>] :
        a \in {0 - 100, 50},
        d \in {Date(2026, 12, 1), Date(2026, 12, 15), Date(2026, 12, 20), Date(2026, 12, 15) - 1}}

\* the store holds no expense or one; the start day of the period is 1 or 15
InitPeriods ==
    /\ now \in TrendNows
    /\ defaults = [currency |-> ""]
    /\ config = {}
    /\ upd = [p \in Procs |-> NoUpd]
    /\ recurring_expenses = {}
    /\ expenses \in {{}} \cup {{e} : e \in PeriodExpenses}
    /\ pc = [p \in Procs |-> "idle"]
    /\ op = [p \in Procs |-> NoOp]
    /\ tx = [p \in Procs |-> NoTx]
    /\ res = [p \in Procs |-> ""]
    /\ \E startDate \in {1, 15} : call = [startDate |-> startDate]
    /\ out = [done |-> FALSE]

GetTRMNLData ==
    /\ ~out.done
    /\ out' = TRMNLResponse(expenses, call.startDate, now)
    /\ UNCHANGED <<now, defaults, config, upd, recurring_expenses, expenses, pc, op, tx, res, call>>

NextPeriods == GetTRMNLData

SpecPeriods == InitPeriods /\ [][NextPeriods]_vars

TypeOK ==
    /\ now \in 0..MaxNow
    /\ \A p \in Procs : pc[p] \in {"idle", "rule", "delete", "insert", "commit", "done"}
    /\ \A r1 \in recurring_expenses, r2 \in recurring_expenses : r1.id = r2.id => r1 = r2
    /\ \A e1 \in expenses, e2 \in expenses : e1.id = e2.id => e1 = e2

\* ================================================================== claims
\* rows of expenses whose back-reference is rule id
Ref(rows, id) == {e \in rows : e.recurring_id = id}

\* the step is the successful tx.Commit() of request p
Commits(p) == pc[p] = "commit" /\ pc'[p] = "done" /\ res'[p] = "ok"

\* what expand returns for the rule of request p, stamped with the identifiers
\* of the rows in added
Expanded(p, fromToday, added) ==
    Range(generateExpensesFromRecurring(op[p].recExp, fromToday, tx[p].today,
                                        Ascending({e.id : e \in added})))

\* C1: Update(id, newRule, applyToAll=false) with cutover T keeps every entry
\* of the rule dated <= T unchanged, replaces the entries dated > T by exactly
\* the entries of expand(newRule, fastForward=true), and leaves the number of
\* the rule's entries dated <= T as it was.
C1_UpdateFutureOnly ==
    [][\A p \in Procs :
        (Commits(p) /\ op[p].kind = "update" /\ ~op[p].all) =>
            LET id == op[p].id
                T == tx[p].cut
                old == Ref(expenses, id)
                new == Ref(expenses', id)
            IN  /\ {e \in old : e.date <= T} \subseteq new
                /\ {e \in old : e.date > T} \cap new = {}
                /\ new \ old = Expanded(p, TRUE, new \ old)
                /\ Cardinality({e \in new : e.date <= T})
                     = Cardinality({e \in old : e.date <= T})]_vars

\* C2: Update(id, newRule, applyToAll=true) on an existing rule replaces the
\* whole entry set: no entry that referenced id before survives and the
\* entries referencing id afterwards are exactly expand(newRule, false).
C2_UpdateAllReplaces ==
    [][\A p \in Procs :
        (Commits(p) /\ op[p].kind = "update" /\ op[p].all) =>
            LET old == Ref(expenses, op[p].id)
                new == Ref(expenses', op[p].id)
            IN  /\ old \cap new = {}
                /\ {e.id : e \in old} \cap {e.id : e \in new} = {}
                /\ new = Expanded(p, FALSE, new)]_vars

C2_Witness ==
    \E p \in Procs :
        /\ pc[p] = "done" /\ res[p] = "ok" /\ op[p].kind = "update" /\ op[p].all
        /\ \E e \in tx[p].del : e.date <= tx[p].cut /\ e \notin expenses
        /\ tx[p].ins # {} /\ Ref(expenses, op[p].id) = tx[p].ins
        /\ tx[p].today > op[p].recExp.start_date

\* C3: Remove(id, removeAll) on an existing rule deletes the rule row and
\* every entry referencing id when removeAll, and otherwise only the entries
\* referencing id dated after now: those dated <= now stay and keep their
\* back-reference to the rule that no longer exists.
C3_RemoveDeletes ==
    [][\A p \in Procs :
        (Commits(p) /\ op[p].kind = "remove") =>
            LET id == op[p].id
            IN  /\ RuleRows(id) # {}
                /\ {r \in recurring_expenses' : r.id = id} = {}
                /\ recurring_expenses' = recurring_expenses \ RuleRows(id)
                /\ expenses' \subseteq expenses
                /\ expenses \ expenses' \subseteq Ref(expenses, id)
                /\ Ref(expenses', id) =
                     IF op[p].all THEN {}
                     ELSE {e \in Ref(expenses, id) : e.date <= tx[p].cut}]_vars

C3_Witness ==
    \E p \in Procs :
        /\ pc[p] = "done" /\ res[p] = "ok" /\ op[p].kind = "remove" /\ ~op[p].all
        /\ tx[p].del # {}
        /\ \E e \in Ref(expenses, op[p].id) : e.date = tx[p].cut
        /\ RuleRows(op[p].id) = {}

\* C4: Update or Remove of a rule id that has no rule row returns not found
\* and changes nothing: no rule row and no entry, orphans of that id included,
\* is inserted, modified or deleted.
C4_NotFoundChangesNothing ==
    [][\A p \in Procs :
        (pc[p] = "rule" /\ op[p].kind \in {"update", "remove"}
            /\ RuleRows(op[p].id) = {} /\ pc'[p] # "rule") =>
            /\ pc'[p] = "done"
            /\ res'[p] \in {"not found", "failed at rule"}
            /\ recurring_expenses' = recurring_expenses
            /\ expenses' = expenses]_vars

C4_Witness ==
    \E p \in Procs :
        /\ pc[p] = "done" /\ res[p] = "not found" /\ op[p].kind = "update"
        /\ Ref(expenses, op[p].id) # {}
        /\ RuleRows(op[p].id) = {}
        /\ tx[p] = NoTx

\* C5: a call that fails at any phase (rule-row write, entry delete, entry
\* insert, commit) leaves the committed store as it was before the call; an
\* Update whose entry insertion fails after the rule row was written leaves
\* the old rule row and the old entries in place.
C5_FailureRollsBack ==
    [][\A p \in Procs :
        (InFlight(p) /\ ~Commits(p)) =>
            /\ recurring_expenses' = recurring_expenses
            /\ expenses' = expenses]_vars

C5_Witness ==
    \E p \in Procs :
        /\ pc[p] = "done" /\ res[p] = "failed at insert" /\ op[p].kind = "update"
        /\ tx[p].rule = "put" /\ tx[p].del # {}
        /\ RuleRows(op[p].id) # {} /\ RuleRows(op[p].id) # {op[p].recExp}
        /\ tx[p].del \subseteq expenses

\* C9: a rule with occurrence budget 0 expands to no entry when it is not
\* fast-forwarded, so Create of such a rule stores the rule row and no entry.
C9_UnboundedCreatesNothing ==
    [][\A p \in Procs :
        (Commits(p) /\ op[p].kind = "create" /\ op[p].recExp.occurrences = 0) =>
            /\ \A r \in ExpandRules :
                 r.occurrences = 0 =>
                    generateExpensesFromRecurring(r, FALSE, now, Unused) = <<>>
            /\ tx[p].ins = {}
            /\ expenses' = expenses
            /\ recurring_expenses' = recurring_expenses \cup {op[p].recExp}]_vars

C9_Witness ==
    \E p \in Procs :
        /\ pc[p] = "done" /\ res[p] = "ok" /\ op[p].kind = "create"
        /\ op[p].recExp.occurrences = 0 /\ op[p].recExp.interval \in Intervals
        /\ op[p].recExp \in recurring_expenses
        /\ Ref(expenses, op[p].recExp.id) = {}

\* both requests have returned from a committed Update
BothUpdated == \A p \in Procs : pc[p] = "done" /\ res[p] = "ok" /\ op[p].kind = "update"

\* C6 as claimed: after two concurrent Updates of one rule the rule row and
\* the rule's entries all come from one call, the one that committed last; no
\* entry generated by the other call is left.
C6_OneCallOnly ==
    BothUpdated =>
        \E p \in Procs :
            /\ RuleRows(op[p].id) = {op[p].recExp}
            /\ tx[p].ins \subseteq expenses
            /\ \A q \in Procs \ {p} : tx[q].ins \cap expenses = {}

\* C6 as the code has it: after two concurrent Updates of one rule, in every
\* interleaving, the rule row is the last committer's, every entry the last
\* committer generated is stored, and an entry generated by the other call is
\* left only as history the last committer keeps: the last call ran with
\* applyToAll=false and the entry is dated at or before its cutover.
C6_LastCommitterWins ==
    BothUpdated =>
        \E p \in Procs :
            /\ RuleRows(op[p].id) = {op[p].recExp}
            /\ tx[p].ins \subseteq expenses
            /\ \A q \in Procs \ {p} :
                 \A e \in tx[q].ins \cap expenses : ~op[p].all /\ e.date <= tx[p].cut

C6_Witness ==
    /\ BothUpdated
    /\ \E p \in Procs :
         /\ tx[p].waited
         /\ RuleRows(op[p].id) = {op[p].recExp}
         /\ tx[p].ins # {} /\ tx[p].ins \subseteq expenses
         /\ \A q \in Procs \ {p} :
              /\ op[q].recExp # op[p].recExp
              /\ tx[q].ins # {}
              /\ \E e \in tx[q].ins : e \notin expenses

\* C7: a reader of the committed tables never sees an Update half done: the
\* rule row and the rule's entries change only in one step, the commit, which
\* installs the new rule row, removes every stale entry the Update replaces
\* and adds the regenerated ones; until then the old row and entries are seen.
C7_UpdateIsAtomic ==
    [][/\ \A p \in Procs :
            InFlight(p) => tx[p].del \subseteq expenses /\ tx[p].ins \cap expenses = {}
       /\ (recurring_expenses' # recurring_expenses \/ expenses' # expenses) =>
            \E p \in Procs :
                /\ Commits(p) /\ op[p].kind = "update"
                /\ recurring_expenses' =
                     (recurring_expenses \ RuleRows(op[p].id)) \cup {op[p].recExp}
                /\ expenses' = (expenses \ tx[p].del) \cup tx[p].ins
                /\ DeleteQuery(expenses, op[p].id, op[p].all, tx[p].cut) \cap expenses' = {}]_vars

C7_Witness ==
    \E p \in Procs :
        /\ pc[p] = "commit" /\ op[p].kind = "update"
        /\ RuleRows(op[p].id) # {op[p].recExp}
        /\ tx[p].del # {} /\ tx[p].del \subseteq expenses
        /\ tx[p].ins # {} /\ tx[p].ins \cap expenses = {}

\* C10: after a full materialization of a rule with budget B > 0 and any
\* number of Updates of its future instances with the same rule, the stored
\* entries referencing the rule never outnumber the budget of the stored rule
\* row, and no expansion returns more than B entries.
C10_BudgetBoundsEntries ==
    /\ \A r \in recurring_expenses :
         r.occurrences > 0 => Cardinality(Ref(expenses, r.id)) <= r.occurrences
    /\ \A p \in Procs : Cardinality(tx[p].ins) <= op[p].recExp.occurrences

\* the rows added are what the rule of request p expands to from its start
\* date: one per occurrence, each with the rule's id as back-reference and the
\* rule's name, category, amount, currency and tags
FromStart(p, added) ==
    LET r == op[p].recExp
    IN  /\ Cardinality(added) = r.occurrences
        /\ {e.date : e \in added} = {Occurrence(r, k) : k \in 0..(r.occurrences - 1)}
        /\ \A e \in added :
             /\ e.recurring_id = r.id /\ e.name = r.name /\ e.category = r.category
             /\ e.amount = r.amount /\ e.currency = r.currency /\ e.tags = r.tags
             /\ e.id # 0 /\ e.id \notin {x.id : x \in expenses}

\* the commit of request p adds the rule row, under the supplied id or a
\* generated one, and the rows added to expenses
CreateCommits(p, added) ==
    LET r == op[p].recExp
    IN  /\ r.id # 0 /\ (op[p].id # 0 => r.id = op[p].id)
        /\ RuleRows(r.id) = {}
        /\ recurring_expenses' = recurring_expenses \cup {r}
        /\ expenses \subseteq expenses'
        /\ FromStart(p, added)

\* C11 as claimed: a successful Create commits in one step the rule row (with
\* a generated id when none was supplied) and exactly the entries of
\* expand(rule, false), each with the rule's id, name, category, amount,
\* currency and tags; afterwards the entries referencing the rule's id are
\* exactly that set.
C11_CreateEntriesOnly ==
    [][\A p \in Procs :
        (Commits(p) /\ op[p].kind = "create") =>
            /\ CreateCommits(p, expenses' \ expenses)
            /\ Ref(expenses', op[p].recExp.id) = expenses' \ expenses]_vars

\* C11 as the code has it: a successful Create commits in one step the rule
\* row (with a generated id when none was supplied) and exactly the entries of
\* expand(rule, false), each with the rule's id, name, category, amount,
\* currency and tags; afterwards the entries referencing the rule's id are
\* that set together with the entries that referenced the id before the call.
C11_CreateCommitsExpansion ==
    [][\A p \in Procs :
        (Commits(p) /\ op[p].kind = "create") =>
            /\ CreateCommits(p, expenses' \ expenses)
            /\ Ref(expenses', op[p].recExp.id)
                 = Ref(expenses, op[p].recExp.id) \cup (expenses' \ expenses)]_vars

C11_Witness ==
    \E p \in Procs :
        /\ pc[p] = "done" /\ res[p] = "ok" /\ op[p].kind = "create"
        /\ op[p].id = 0 /\ op[p].recExp.id \notin RuleIds \cup {0}
        /\ op[p].recExp \in recurring_expenses
        /\ Cardinality(tx[p].ins) = MaxOccurrences
        /\ Ref(expenses, op[p].recExp.id) = tx[p].ins

\* C12: an entry whose back-reference names a rule is never modified or
\* deleted by UpdateExpense, RemoveExpense or RemoveMultipleExpenses, and a
\* direct edit never changes an entry's back-reference.
C12_ReferencedEntriesUntouched ==
    [][/\ \A e \in expenses : e.recurring_id # 0 => e \in expenses'
       /\ \A e \in expenses, f \in expenses' :
            e.id = f.id => f.recurring_id = e.recurring_id]_vars

\* the payload of a rule or entry as the caller sent it
Sent(recExp) == CHOOSE q \in Payloads : q.name = recExp.name

\* C13: every entry generated for a rule by Create or Update has the rule's
\* currency when the rule was sent with one, and otherwise the currency of the
\* persisted configuration, also in a store opened on a database that holds a
\* configuration and after a configuration save that failed.
C13_CurrencyDefault ==
    [][\A p \in Procs :
        (pc[p] = "insert" /\ pc'[p] = "commit") =>
            \A e \in tx'[p].ins :
                IF Sent(e).currency # "" THEN e.currency = Sent(e).currency
                ELSE \A row \in config : e.currency = row.currency]_vars

\* C14: Update(id, newRule, ...) keeps the rule's identity: whatever id
\* newRule carries, the rule row stored under id keeps id, no other rule row
\* is created or changed, and every regenerated entry has back-reference id.
C14_UpdateKeepsIdentity ==
    [][\A p \in Procs :
        (Commits(p) /\ op[p].kind = "update") =>
            LET id == op[p].id
            IN  /\ {r.id : r \in recurring_expenses'} = {r.id : r \in recurring_expenses}
                /\ Cardinality(recurring_expenses') = Cardinality(recurring_expenses)
                /\ \A r \in recurring_expenses : r.id # id => r \in recurring_expenses'
                /\ \A r \in recurring_expenses' :
                     r.id = id => r = [op[p].sent EXCEPT !.id = id,
                                                         !.currency = op[p].recExp.currency]
                /\ \A e \in expenses' \ expenses : e.recurring_id = id]_vars

C14_Witness ==
    \E p \in Procs :
        /\ pc[p] = "done" /\ res[p] = "ok" /\ op[p].kind = "update"
        /\ op[p].sent.id \notin {0, op[p].id}
        /\ RuleRows(op[p].sent.id) # {} /\ RuleRows(op[p].id) # {}
        /\ \A r \in RuleRows(op[p].sent.id) : r.name # op[p].sent.name
        /\ tx[p].ins # {} /\ tx[p].ins \subseteq Ref(expenses, op[p].id)

\* the rule row and the entries of rule id
Rule(rows, id) == {r \in rows : r.id = id}

\* C15: lifecycle operations on different rule ids do not interfere: in every
\* interleaving of a Create, Update or Remove of rule A with one of rule B,
\* no call waits for the other, a rule's row and entries change only at the
\* commit of the call on that rule, and what that commit leaves is what the
\* call alone produces from the rule's own rows: the sent rule and its
\* expansion for a Create, the sent rule, the kept entries and the expansion
\* for an Update, the kept entries for a Remove.
C15_RulesIndependent ==
    [][\A p \in Procs :
        LET id == RuleOf(p)
            old == Ref(expenses, id)
            new == Ref(expenses', id)
            gone == DeleteQuery(old, id, op[p].all, tx[p].cut)
        IN  /\ InFlight(p) => ~RowLocked(p, id) /\ ~tx[p].waited
            /\ ~Commits(p) =>
                 /\ Rule(recurring_expenses', id) = Rule(recurring_expenses, id)
                 /\ new = old
            /\ (Commits(p) /\ op[p].kind = "create") =>
                 /\ Rule(recurring_expenses', id) = {op[p].recExp}
                 /\ old \subseteq new /\ FromStart(p, new \ old)
            /\ (Commits(p) /\ op[p].kind = "update") =>
                 /\ Rule(recurring_expenses', id) = {op[p].recExp}
                 /\ new \cap old = old \ gone
                 /\ new \ old = Expanded(p, ~op[p].all, new \ old)
            /\ (Commits(p) /\ op[p].kind = "remove") =>
                 /\ Rule(recurring_expenses', id) = {}
                 /\ new = old \ gone]_vars

C15_Witness ==
    /\ \A p \in Procs : pc[p] = "done" /\ res[p] = "ok" /\ tx[p].rule # "none"
    /\ op[1].kind = "update" /\ ~op[1].all /\ tx[1].del # {} /\ tx[1].ins # {}
    /\ op[2].kind = "remove" /\ op[2].all /\ tx[2].del # {}
    /\ tx[1].cut < tx[2].cut
    /\ Ref(expenses, RuleOf(1)) = tx[1].ins
    /\ Ref(expenses, RuleOf(2)) = {}

\* C16: when the store reports that the rule of an update or delete request
\* does not exist, the handler's response is a not-found error that differs
\* from its response to every other storage failure.
C16_NotFoundDistinguishable ==
    \A p \in Procs :
        (pc[p] = "done" /\ op[p].kind \in {"update", "remove"} /\ res[p] = "not found") =>
            /\ Response(op[p].kind, res[p]).status # 200
            /\ \A err \in StorageFailures :
                 Response(op[p].kind, res[p]) # Response(op[p].kind, err)

\* C17: querying a single rule by id returns what is stored: after a
\* successful Create or Update, GetRecurringExpense(id) succeeds and returns
\* the rule row stored under id, and for an id without a row it returns a
\* not-found error.
C17_GetRoundTrips ==
    \A id \in RuleIds \cup {r.id : r \in recurring_expenses} :
        IF RuleRows(id) = {} THEN GetRecurringExpense(id).err = "not found"
        ELSE /\ GetRecurringExpense(id).err = ""
             /\ RuleRows(id) = {GetRecurringExpense(id).re}

\* the pattern of a rule matches a name as claimed: exact is equality of the
\* strings, contains is a substring up to the case of the letters
Matching(name, rule) ==
    \/ rule.MatchType = "exact" /\ rule.Pattern = name
    \/ /\ rule.MatchType = "contains"
       /\ \E i \in 1..(Len(name) + 1), j \in 0..Len(name) :
            ToLower(SubSeq(name, i, j)) = ToLower(rule.Pattern)

\* C18: mapping rules are applied in list order and the first matching rule
\* wins: ApplyMapping returns the subcategory of the first rule whose category
\* is the given one and whose pattern matches the name, and the empty string
\* when there is none; ApplyMappingWithCategory returns category and
\* subcategory of the first rule whose pattern matches, whatever its category.
C18_FirstMatchWins ==
    out.done =>
        LET rules == call.rules
            hits == {i \in 1..Len(rules) :
                        /\ Matching(call.transactionName, rules[i])
                        /\ out.fn = "ApplyMapping" => rules[i].Category = call.category}
            first == CHOOSE i \in hits : \A j \in hits : i <= j
        IN  IF hits = {} THEN out.SubCategory = ""
                              /\ (out.fn = "ApplyMappingWithCategory" => out.Category = "")
            ELSE /\ out.SubCategory = rules[first].SubCategory
                 /\ out.fn = "ApplyMappingWithCategory" => out.Category = rules[first].Category

C18_Witness ==
    /\ out.done /\ out.fn = "ApplyMapping" /\ Len(call.rules) = 2
    /\ \A i \in 1..2 : /\ call.rules[i].Category = call.category
                       /\ call.rules[i].MatchType = "contains"
                       /\ call.rules[i].Pattern = <<"A", "b">>
    /\ call.transactionName = <<"a", "b">>
    /\ call.rules[1].SubCategory # call.rules[2].SubCategory
    /\ out.SubCategory = call.rules[1].SubCategory

\* months since year 0 of a period label
MonthIndex(label) == label[1] * 12 + label[2]

\* C19: the monthly summary for N requested months (12 when the request has
\* no months parameter) has exactly N period entries, one per month, ordered
\* from the oldest period to the current one, whatever expenses are stored.
C19_OnePeriodPerMonth ==
    out.done =>
        LET N == IF call.months = 0 THEN 12 ELSE call.months
            trend == out.trend
            today == now \div TicksPerDay
            current == IF DayOf(today) >= call.startDate
                       THEN YearOf(today) * 12 + MonthOf(today)
                       ELSE YearOf(today) * 12 + MonthOf(today) - 1
        IN  /\ Len(trend) = N
            /\ \A k \in 1..(N - 1) :
                 MonthIndex(trend[k + 1].Month) = MonthIndex(trend[k].Month) + 1
            /\ MonthIndex(trend[N].Month) = current

\* the call expands a rule with a valid interval and a budget B > 0 from today
FastForwarded ==
    /\ out.done /\ call.fromToday
    /\ call.recExp.interval \in Intervals /\ call.recExp.occurrences > 0

\* the occurrences of the rule of the call dated before today
Elapsed ==
    Cardinality({j \in 0..(MaxSkips + 1) : Occurrence(call.recExp, j) < call.today})

\* C20 as claimed: during fast-forward with a budget B > 0 the cursor is
\* stepped while it is before now and budget remains, exactly the steps that
\* land on a date still before now consume one unit of budget, and the
\* generation limit is B minus the number of such steps.
C20_LandingStepsConsume ==
    FastForwarded =>
        LET ff == FastForwardLandingOnly(call.recExp, call.recExp.start_date,
                                         call.recExp.occurrences, call.today)
        IN  /\ Len(out.expenses) = ff.occurrencesToGenerate
            /\ out.expenses # <<>> => out.expenses[1].date = ff.currentDate

\* C20 as the code has it: during fast-forward with a budget B > 0 the cursor
\* is stepped while it is before now and budget remains, every step consumes
\* one unit of budget, also the last one, which lands on a date not before
\* now, and the generation limit is B minus the number of steps: one step for
\* each occurrence dated before now, B at most.
C20_EveryStepConsumes ==
    FastForwarded =>
        LET B == call.recExp.occurrences
            steps == IF Elapsed < B THEN Elapsed ELSE B
        IN  /\ Len(out.expenses) = B - steps
            /\ steps < B =>
                 /\ out.expenses[1].date = Occurrence(call.recExp, steps)
                 /\ out.expenses[1].date >= call.today
                 /\ steps > 0 => Occurrence(call.recExp, steps - 1) < call.today

C20_Witness ==
    /\ FastForwarded
    /\ call.recExp.occurrences = MaxBudget /\ Elapsed = 2
    /\ Len(out.expenses) = MaxBudget - 2
    /\ out.expenses[1].date > call.today
    /\ Occurrence(call.recExp, 1) < call.today

\* C21: a lifecycle call reads the current time once: in Update(id, newRule,
\* applyToAll=false) the cutover of the delete is the instant the expansion
\* fast-forwards to, so no entry is deleted (dated after the cutover) whose
\* occurrence the fast-forward then skips (dated before its target).
C21_OneClockRead ==
    \A p \in Procs :
        (pc[p] = "commit" /\ op[p].kind = "update" /\ ~op[p].all) =>
            /\ tx[p].cut = tx[p].today
            /\ \A e \in tx[p].del : ~(tx[p].cut < e.date /\ e.date < tx[p].today)

\* what is left of the expansion of a rule with an unrecognized interval: no
\* row when the first step attempt is made by the fast-forward (the start date
\* is before now), else one row dated at the start date when the budget is
\* positive, else none
Truncated(recExp, fromToday, today, rows) ==
    IF fromToday /\ recExp.start_date < today THEN rows = {}
    ELSE IF recExp.occurrences > 0
         THEN /\ Cardinality(rows) = 1
              /\ \A e \in rows : e.date = recExp.start_date /\ e.recurring_id = recExp.id
         ELSE rows = {}

\* C22: expand on a rule whose interval is none of daily, weekly, monthly and
\* yearly stops at the first step attempt and returns the entries emitted so
\* far (none when the fast-forward halts, one dated startDate when generation
\* starts with a positive limit), and a Create or Update with such a rule
\* commits the rule row together with that truncated entry set.
C22_InvalidIntervalTruncates ==
    /\ (out.done /\ call.recExp.interval \notin Intervals) =>
         /\ Len(out.expenses) = Cardinality(Range(out.expenses))
         /\ Truncated(call.recExp, call.fromToday, call.today, Range(out.expenses))
    /\ \A p \in Procs :
         (pc[p] = "done" /\ res[p] = "ok" /\ op[p].kind \in {"create", "update"}
             /\ op[p].recExp.interval \notin Intervals) =>
            /\ op[p].recExp \in recurring_expenses
            /\ tx[p].ins \subseteq expenses
            /\ Truncated(op[p].recExp, op[p].kind = "update" /\ ~op[p].all,
                         tx[p].today, tx[p].ins)

C22_Witness ==
    /\ pc[1] = "done" /\ res[1] = "ok" /\ op[1].kind = "create"
    /\ op[1].recExp.interval \notin Intervals
    /\ op[1].recExp.occurrences = MaxOccurrences
    /\ Cardinality(tx[1].ins) = 1
    /\ tx[1].ins \subseteq expenses

\* the calendar day one month after day n: the same day of the following
\* month, or, when that month is shorter, as many days into the month after it
\* as the day of the month exceeds its length
MonthLater(n) ==
    LET y == IF MonthOf(n) = 12 THEN YearOf(n) + 1 ELSE YearOf(n)
        m == IF MonthOf(n) = 12 THEN 1 ELSE MonthOf(n) + 1
    IN  IF DayOf(n) <= DaysIn(y, m)
        THEN DaysBeforeYear(y) + DaysBeforeMonth(y, m) + DayOf(n) - 1
        ELSE DaysBeforeYear(y) + DaysBeforeMonth(y, m) + DaysIn(y, m)
                 + (DayOf(n) - DaysIn(y, m)) - 1

\* C23: expansion from the start date is deterministic and calendar
\* normalized: the entries of a monthly rule do not depend on the current
\* time, each is dated one calendar month after the previous one with the
\* overflow of a short month carried into the next, and a start of 2026-01-31
\* with budget 3 gives 01-31, 03-03 and 04-03 (the day is not restored to 31).
C23_MonthlyNormalized ==
    (out.done /\ ~call.fromToday /\ call.recExp.interval = "monthly") =>
        LET r == call.recExp
            h == r.start_date % TicksPerDay
        IN  /\ Len(out.expenses) = r.occurrences
            /\ \A t \in Todays(r) :
                 Dates(generateExpensesFromRecurring(r, FALSE, t, [i \in 1..MaxBudget |-> i]))
                     = Dates(out.expenses)
            /\ r.occurrences > 0 => out.expenses[1].date = r.start_date
            /\ \A i \in 1..(Len(out.expenses) - 1) :
                 out.expenses[i + 1].date
                     = MonthLater(out.expenses[i].date \div TicksPerDay) * TicksPerDay + h
            /\ (r.start_date \div TicksPerDay = 30 /\ r.occurrences = 3) =>
                 Dates(out.expenses) = <<30 * TicksPerDay + h,
                                         (31 + 28 + 2) * TicksPerDay + h,
                                         (31 + 28 + 31 + 2) * TicksPerDay + h>>

C23_Witness ==
    /\ out.done /\ ~call.fromToday /\ call.recExp.interval = "monthly"
    /\ call.recExp.start_date = 30 * TicksPerDay /\ call.recExp.occurrences = 3
    /\ call.today > call.recExp.start_date
    /\ Len(out.expenses) = 3
    /\ DayOf(out.expenses[3].date \div TicksPerDay) = 3

\* C24: for a rule with a valid interval and budget B > 0, expand with
\* fastForward at time now emits max(0, B - k) entries, k being the number of
\* occurrence dates strictly before now; they are the occurrences that follow
\* the k elapsed ones, so the first is dated at the first occurrence date not
\* before now and none is dated before now.
C24_FastForwardEmits ==
    FastForwarded =>
        LET B == call.recExp.occurrences
            k == Elapsed
        IN  /\ Len(out.expenses) = (IF B - k > 0 THEN B - k ELSE 0)
            /\ \A i \in 1..Len(out.expenses) :
                 /\ out.expenses[i].date = Occurrence(call.recExp, k + i - 1)
                 /\ out.expenses[i].date >= call.today
            /\ \A j \in 0..(MaxSkips + 1) :
                 (out.expenses # <<>> /\ Occurrence(call.recExp, j) >= call.today)
                     => out.expenses[1].date <= Occurrence(call.recExp, j)

C24_Witness ==
    /\ FastForwarded
    /\ call.recExp.occurrences = MaxBudget /\ Elapsed = 2
    /\ call.today > Occurrence(call.recExp, 1) /\ call.today < Occurrence(call.recExp, 2)
    /\ Len(out.expenses) = MaxBudget - 2
    /\ out.expenses[1].date = Occurrence(call.recExp, 2)

\* C25: a rule with budget 0 expands to no entry with fastForward as well,
\* whatever its start date and interval, so Update(id, newRule,
\* applyToAll=false) with budget 0 deletes the rule's entries dated after the
\* cutover and inserts none: afterwards the rule has no entry dated after it.
C25_UnboundedUpdatesNothing ==
    /\ (out.done /\ call.fromToday /\ call.recExp.occurrences = 0) => out.expenses = <<>>
    /\ \A p \in Procs :
         (pc[p] = "done" /\ res[p] = "ok" /\ op[p].kind = "update" /\ ~op[p].all
             /\ op[p].recExp.occurrences = 0) =>
            /\ op[p].recExp \in recurring_expenses
            /\ tx[p].ins = {}
            /\ \A e \in tx[p].del :
                 e.recurring_id = op[p].id /\ e.date > tx[p].cut /\ e \notin expenses
            /\ \A e \in Ref(expenses, op[p].id) : e.date <= tx[p].cut

C25_Witness ==
    \E p \in Procs :
        /\ pc[p] = "done" /\ res[p] = "ok" /\ op[p].kind = "update" /\ ~op[p].all
        /\ op[p].recExp.occurrences = 0 /\ op[p].recExp \in recurring_expenses
        /\ tx[p].del # {} /\ tx[p].ins = {}
        /\ Ref(expenses, op[p].id) # {}
        /\ tx[p].today > op[p].recExp.start_date

\* C26: Update(id, r, applyToAll=false) with r equal to the stored rule, on
\* the entry set Create(r) produced, keeps the occurrence dates for every
\* cutover time: the rule's entries have the same dates afterwards, none
\* twice and none lost.
C26_UpdateIdempotent ==
    [][\A p \in Procs :
        (Commits(p) /\ op[p].kind = "update" /\ ~op[p].all
            /\ op[p].recExp \in recurring_expenses
            /\ Cardinality(Ref(expenses, op[p].id)) = op[p].recExp.occurrences
            /\ {e.date : e \in Ref(expenses, op[p].id)}
                 = {Occurrence(op[p].recExp, k) : k \in 0..(op[p].recExp.occurrences - 1)}) =>
            LET old == Ref(expenses, op[p].id)
                new == Ref(expenses', op[p].id)
            IN  /\ {e.date : e \in new} = {e.date : e \in old}
                /\ Cardinality(new) = Cardinality({e.date : e \in new})]_vars

\* C27: Create, Update and Remove of a rule never insert, modify or delete an
\* entry whose back-reference is empty: no statement of a call deletes or
\* inserts such an entry, and the stored entries without back-reference are
\* the same after every step of a call, whether it succeeds or fails.
C27_FreestandingUntouched ==
    [][/\ Ref(expenses', 0) = Ref(expenses, 0)
       /\ \A p \in Procs : Ref(tx'[p].del, 0) = {} /\ Ref(tx'[p].ins, 0) = {}]_vars

C27_Witness ==
    \E p \in Procs :
        /\ pc[p] = "done" /\ res[p] = "ok" /\ op[p].kind = "remove" /\ op[p].all
        /\ tx[p].del # {}
        /\ Ref(expenses, 0) = FreeEntries
        /\ \E e \in FreeEntries : e.date > tx[p].cut

\* the stored configuration shows the change of update u
Reflects(u, row) ==
    CASE u.kind = "AddSubCategory" ->
             \E i \in 1..Len(row.subcategories[u.category]) :
                 row.subcategories[u.category][i] = u.a
      [] u.kind = "UpdateCurrency" -> row.currency = u.a
      [] u.kind = "UpdateCategories" -> row.categories = u.list

\* the two updates touch different parts of the configuration
DifferentParts(u, v) ==
    \/ u.kind # v.kind
    \/ u.kind = "AddSubCategory" /\ <<u.category, u.a>> # <<v.category, v.a>>

\* C28: configuration updates are not lost under concurrency: when two calls
\* that touch different parts of the configuration have both returned
\* success, the persisted configuration reflects both changes.
C28_NoLostUpdate ==
    \A p \in Procs, q \in Procs :
        (/\ p # q
         /\ upd[p].pc = "done" /\ upd[p].err = ""
         /\ upd[q].pc = "done" /\ upd[q].err = ""
         /\ DifferentParts(upd[p], upd[q])) =>
            /\ config # {}
            /\ \A row \in config : Reflects(upd[p], row) /\ Reflects(upd[q], row)

\* no name is twice in a subcategory list of the rows
NoDuplicates(rows) ==
    \A row \in rows, k \in SubCategoryKeys :
        \A i \in 1..Len(row.subcategories[k]), j \in 1..Len(row.subcategories[k]) :
            row.subcategories[k][i] = row.subcategories[k][j] => i = j

\* C29: from a configuration without duplicates, after any sequence of
\* AddSubCategory, RemoveSubCategory and RenameSubCategory calls no
\* subcategory list holds a name twice, and a call that returns an error
\* leaves the stored lists as they were.
C29_NoDuplicateSubCategories ==
    [][/\ NoDuplicates(config) => NoDuplicates(config')
       /\ \A p \in Procs :
            (upd[p].pc = "read" /\ upd'[p].pc = "done" /\ upd'[p].err # "")
                => config' = config]_vars

\* the sum of the numbers of a sequence
RECURSIVE Total(_)
Total(s) == IF s = <<>> THEN 0 ELSE Head(s) + Total(Tail(s))

\* C30: in the monthly trend and the current-period summary the periods
\* partition time: the trend periods are pairwise distinct consecutive months
\* ending with the period of the summary, and every expense is counted in at
\* most one period, also an expense dated exactly at a period boundary (the
\* start day at 00:00): the amounts counted over all the periods do not exceed
\* the amounts stored.
C30_PeriodsPartition ==
    out.done =>
        LET trend == out.MonthlyTrend
            N == Len(trend)
        IN  /\ \A k \in 1..(N - 1) :
                 MonthIndex(trend[k + 1].Month) = MonthIndex(trend[k].Month) + 1
            /\ trend[N].Month = out.Month
            /\ out.TotalIncome + out.TotalExpenses
                 <= Sum({e \in expenses : e.amount >= 0}) - Sum({e \in expenses : e.amount < 0})
            /\ Total([k \in 1..N |-> trend[k].TotalIncome + trend[k].TotalExpenses])
                 <= Sum({e \in expenses : e.amount >= 0}) - Sum({e \in expenses : e.amount < 0})

====
